---- MODULE Spec2Model ----
(***************************************************************************)
(* A model of the multi-agent coordination layer of AIconsciousness:       *)
(*   - SwarmEnvironment (src/src/swarm.py): concepts with pheromones,      *)
(*     the fact ledger and the task queue, over one shared SQLite          *)
(*     connection (src/src/memory.py);                                     *)
(*   - the agent graph (src/src/graph.py): reasoning_engine,               *)
(*     tool_executor, reflection;                                          *)
(*   - the scheduler run_autonomous_swarm (src/src/autonomous_swarm.py).   *)
(*                                                                         *)
(* Pheromones are REAL columns.  They are modelled exactly, in fixed       *)
(* point: the integer p stands for p / (100 * 10^MaxEvap), weights are     *)
(* given in hundredths and decay rates in tenths, so that every product    *)
(* p * (1 - r) of a behaviour with at most MaxEvap evaporations is exact.  *)
(***************************************************************************)
EXTENDS Integers, Sequences, FiniteSets, TLC

\* ------------------------------------------------------------------ bounds
\* evaporate calls in one behaviour (also the fixed-point resolution)
MaxEvap == 3
\* SwarmEnvironment calls in one behaviour of SpecConcepts
MaxCalls == 5
\* largest value CURRENT_TIMESTAMP (whole seconds) takes
MaxClock == 2
\* rows the tasks table holds, and the calls of one behaviour, in SpecTasks
MaxTasks == 2
MaxTaskCalls == 4
\* num_agents and max_iterations of the scheduler run
NumAgents == 2
MaxIterations == 2
\* tool invocations the oracle requests in one behaviour, and in one decision
MaxToolCalls == 3
MaxBatch == 2
\* failures (of the oracle, of a statement) in one behaviour
MaxFailures == 1
\* SwarmEnvironment calls the threads of SpecConc issue in one behaviour
MaxConcCalls == 3
\* agent_graph.invoke calls on one thread in SpecAgent
MaxRuns == 2
\* add_fact and get_facts calls in one behaviour of SpecFacts
MaxFactCalls == 7

VARIABLES
    \* the store (src/src/memory.py) and the calls made on it
    conn,        \* SwarmEnvironment.conn: "open", or "none" when connecting failed
    clock,       \* CURRENT_TIMESTAMP of the store, in seconds
    concepts,    \* table concepts: name -> pheromone (rows seen by the connection)
    tasks,       \* table tasks: a sequence of rows, the id is the index
    facts,       \* table facts: a sequence of rows, the id is the index
    memories,    \* table memories: a sequence of contents, the id is the index
    ret,         \* the last SwarmEnvironment call and what it returned (status: the text)
    ncalls,      \* SwarmEnvironment calls made so far
    evaps,       \* evaporate calls made so far
    hist,        \* per concept: the reinforcements and evaporations since its row was created
    pruned,      \* the concepts an evaporate deleted and no call has reinforced since
    \* run_autonomous_swarm (src/src/autonomous_swarm.py)
    spc,         \* where the scheduler is
    added,       \* initial tasks added so far
    iteration,   \* iterations of the main swarm loop begun
    agentIdx,    \* index in agent_ids of the agent whose turn it is
    task_id,     \* the task id the turn holds, 0 for None
    goal,        \* current_task_input of the turn
    picked,      \* per task id: the turns that took the task as their goal
    \* agent_graph (src/src/graph.py)
    node,        \* the node the running graph executes next
    checkpoint,  \* per thread id: the AgentState saved after the last completed node
    cycles,      \* tool_executor rounds of the running graph
    runs,        \* agent_graph.invoke calls made so far
    oracleCalls, \* the tool invocations the oracle draws its decisions from
    toolBudget,  \* tool invocations the oracle may still request in this behaviour
    failBudget,  \* failures (of the oracle, of a statement) that may still happen
    \* callers on several threads, statement by statement (SpecConc)
    threads,     \* per thread: the SwarmEnvironment call it is in and how far it got
    committed,   \* table concepts as of the last commit of the connection
    issued,      \* the calls the threads have issued, in the order they began
    \* run_multi_agent_test (src/src/multi_agent_test.py)
    disabled_agents  \* the agent ids the test was told to skip

envVars == <<conn, clock, concepts, tasks, facts, memories, ret, ncalls, evaps, hist, pruned>>
schedVars == <<spc, added, iteration, agentIdx, task_id, goal, picked>>
graphVars == <<node, checkpoint, cycles, runs, oracleCalls, toolBudget, failBudget>>
concVars == <<threads, committed, issued>>
testVars == <<disabled_agents>>

vars == <<envVars, schedVars, graphVars, concVars, testVars>>

\* ------------------------------------------------------------ fixed point
RECURSIVE Pow10(_)
Pow10(n) == IF n = 0 THEN 1 ELSE 10 * Pow10(n - 1)

\* a weight given in hundredths, as a pheromone amount
Amount(w) == w * Pow10(MaxEvap)

\* DELETE FROM concepts WHERE pheromone < 0.01
PruneThreshold == Amount(1)

\* reinforce_concept's default weight, 1.0
DefaultWeight == 100

\* evaporate's default decay_rate, 0.1
DefaultDecay == 1

\* the names, weights (hundredths) and decay rates (tenths) the calls are drawn from
ConceptNames == {"cats", "dogs", "birds"}
Weights == {-100, 1, DefaultWeight}
DecayRates == {DefaultDecay, 5}

\* ------------------------------------------------------- concepts: SQL
\* INSERT INTO concepts ... ON CONFLICT(name) DO UPDATE SET pheromone = pheromone + ?
UpsertOverwrite(tbl, c, w) ==
    IF c \in DOMAIN tbl THEN [tbl EXCEPT ![c] = Amount(w)] ELSE tbl @@ (c :> Amount(w))

UpsertConcept(tbl, c, w) ==
    IF c \in DOMAIN tbl THEN [tbl EXCEPT ![c] = @ + Amount(w)] ELSE tbl @@ (c :> Amount(w))

\* UPDATE concepts SET pheromone = pheromone * (1 - decay_rate)
DecayAll(tbl, r) == [c \in DOMAIN tbl |-> (tbl[c] * (10 - r)) \div 10]

\* DELETE FROM concepts WHERE pheromone < 0.01
PruneNone(tbl) == tbl

PruneNegligible(tbl) == [c \in {d \in DOMAIN tbl : tbl[d] >= PruneThreshold} |-> tbl[c]]

\* SELECT name, pheromone FROM concepts WHERE pheromone > 0 ORDER BY pheromone DESC LIMIT ?
\* SQL leaves the order of equal pheromones open: every order is a possible result.
Min(a, b) == IF a < b THEN a ELSE b

\* LIMIT ? of SQLite on n rows: a negative limit is no limit
RowLimit(limit, n) == IF limit < 0 THEN n ELSE Min(limit, n)

StrongestIncludingZero(tbl, limit) ==
    LET pos == DOMAIN tbl
        n == RowLimit(limit, Cardinality(pos))
    IN  {s \in [1..n -> pos] :
            /\ \A i, j \in 1..n : i < j => s[i] # s[j] /\ tbl[s[i]] >= tbl[s[j]]
            /\ \A c \in pos : (\A i \in 1..n : s[i] # c) => \A i \in 1..n : tbl[s[i]] >= tbl[c]}

StrongestRows(tbl, limit) ==
    LET pos == {c \in DOMAIN tbl : tbl[c] > 0}
        n == RowLimit(limit, Cardinality(pos))
    IN  {s \in [1..n -> pos] :
            /\ \A i, j \in 1..n : i < j => s[i] # s[j] /\ tbl[s[i]] >= tbl[s[j]]
            /\ \A c \in pos : (\A i \in 1..n : s[i] # c) => \A i \in 1..n : tbl[s[i]] >= tbl[c]}

\* ----------------------------------------------------------- tasks: SQL
\* completed_at DATETIME: NULL until the task is completed (timestamps start at 1)
NullTime == 0

AgentIds == {"agent_1", "agent_2"}
SystemInitializer == "system_initializer"
TaskDescriptions == {"research X", "research Y"}

\* an INSERT that names the description only: assigned_agent_id stays NULL
InsertTaskUnassigned(tbl, description, source_agent_id, now) ==
    Append(tbl, [description |-> description, status |-> "pending",
                 assigned_agent_id |-> "",
                 created_at |-> now, completed_at |-> NullTime])

\* INSERT INTO tasks (description, assigned_agent_id) VALUES (?, ?)
\* status defaults to 'pending', created_at to CURRENT_TIMESTAMP, completed_at to NULL
InsertTask(tbl, description, source_agent_id, now) ==
    Append(tbl, [description |-> description, status |-> "pending",
                 assigned_agent_id |-> source_agent_id,
                 created_at |-> now, completed_at |-> NullTime])

\* WHERE id = ? AND assigned_agent_id = ?
TaskMatchesAnyAgent(tbl, id, agent) == id \in DOMAIN tbl

TaskMatches(tbl, id, agent) ==
    id \in DOMAIN tbl /\ tbl[id].assigned_agent_id = agent

\* an UPDATE that sets the status and leaves completed_at as it is
UpdateStatusOnly(tbl, id, agent, now) ==
    [i \in DOMAIN tbl |->
        IF i = id /\ TaskMatches(tbl, id, agent)
        THEN [tbl[i] EXCEPT !.status = "completed"]
        ELSE tbl[i]]

\* UPDATE tasks SET status = 'completed', completed_at = CURRENT_TIMESTAMP WHERE ...
UpdateCompleted(tbl, id, agent, now) ==
    [i \in DOMAIN tbl |->
        IF i = id /\ TaskMatches(tbl, id, agent)
        THEN [tbl[i] EXCEPT !.status = "completed", !.completed_at = now]
        ELSE tbl[i]]

\* cursor.rowcount of that UPDATE
RowCount(tbl, id, agent) == IF TaskMatches(tbl, id, agent) THEN 1 ELSE 0

\* SELECT id, description, assigned_agent_id FROM tasks WHERE status = 'pending'
\* ORDER BY created_at ASC LIMIT ?
\* created_at has a resolution of one second and SQL leaves the order of equal
\* keys open: every order of the rows of one second is a possible result.
PendingIds(tbl) == {i \in DOMAIN tbl : tbl[i].status = "pending"}

AvailableIds(tbl, limit) ==
    LET pend == PendingIds(tbl)
        n == RowLimit(limit, Cardinality(pend))
    IN  {s \in [1..n -> pend] :
            /\ \A i, j \in 1..n : i < j => s[i] # s[j] /\ tbl[s[i]].created_at <= tbl[s[j]].created_at
            /\ \A t \in pend : (\A i \in 1..n : s[i] # t) =>
                   \A i \in 1..n : tbl[s[i]].created_at <= tbl[t].created_at}

TaskRows(tbl, ids) ==
    [i \in DOMAIN ids |-> [id |-> ids[i], description |-> tbl[ids[i]].description,
                           assigned_agent_id |-> tbl[ids[i]].assigned_agent_id]]

\* ----------------------------------------------------------- facts: SQL
\* an INSERT that writes over the newest row
InsertFactOverNewest(tbl, fact, source_agent_id, now) ==
    LET row == [content |-> fact, source_agent_id |-> source_agent_id, timestamp |-> now]
    IN  IF tbl = <<>> THEN <<row>> ELSE [tbl EXCEPT ![Len(tbl)] = row]

\* INSERT INTO facts (content, source_agent_id, timestamp) VALUES (?, ?, CURRENT_TIMESTAMP)
InsertFact(tbl, fact, source_agent_id, now) ==
    Append(tbl, [content |-> fact, source_agent_id |-> source_agent_id, timestamp |-> now])

\* content LIKE '%query%': query occurs in content.  The texts of the model
\* are lower-case and hold neither % nor _, on which LIKE is a plain search.
Like(content, query) ==
    \E i \in 0..(Len(content) - Len(query)) : SubSeq(content, i + 1, i + Len(query)) = query

\* SELECT content, source_agent_id FROM facts [WHERE content LIKE ?]
\* ORDER BY timestamp DESC LIMIT ?
\* timestamp has a resolution of one second and SQL leaves the order of equal
\* keys open.  `if query:` skips the filter for None and for the empty text.
FactIds(tbl, query, limit) ==
    LET hit == {i \in DOMAIN tbl : query = "" \/ Like(tbl[i].content, query)}
        n == RowLimit(limit, Cardinality(hit))
    IN  {s \in [1..n -> hit] :
            /\ \A i, j \in 1..n : i < j => s[i] # s[j] /\ tbl[s[i]].timestamp >= tbl[s[j]].timestamp
            /\ \A t \in hit : (\A i \in 1..n : s[i] # t) =>
                   \A i \in 1..n : tbl[s[i]].timestamp >= tbl[t].timestamp}

FactRows(tbl, ids) ==
    [i \in DOMAIN ids |-> [content |-> tbl[ids[i]].content,
                           source_agent_id |-> tbl[ids[i]].source_agent_id]]

\* -------------------------------------------------------- memories: SQL
\* INSERT INTO memories (content) VALUES (?)
InsertMemory(tbl, content) == Append(tbl, content)

RECURSIVE NewestMatches(_, _, _)
NewestMatches(tbl, query, limit) ==
    IF tbl = <<>> \/ limit = 0 THEN <<>>
    ELSE LET last == tbl[Len(tbl)]
             rest == SubSeq(tbl, 1, Len(tbl) - 1)
         IN  IF Like(last, query)
             THEN <<last>> \o NewestMatches(rest, query, limit - 1)
             ELSE NewestMatches(rest, query, limit)

\* ---------------------------------------------------------- call records
NoRows == <<>>

Ret(op, status, rows, arg, num) ==
    [op |-> op, status |-> status, rows |-> rows, arg |-> arg, num |-> num]

\* the texts the calls return, as the sequences of their parts
NotConnected == <<"Error: SQLite not connected.">>
ConceptReinforced(concept) == <<"Concept '", concept, "' reinforced.">>
PheromonesEvaporated == <<"Pheromones evaporated successfully.">>
FactAdded(source_agent_id) == <<"Fact added by ", source_agent_id, ".">>
TaskAdded(description, source_agent_id) ==
    <<"Task '", description, "' added by ", source_agent_id, ".">>
TaskCompleted(id) == <<"Task ", ToString(id), " marked as completed.">>
TaskNotOwned(id) == <<"Task ", ToString(id), " not found or not assigned to you.">>
\* a call that returns the rows it read
RowsReturned == <<>>

\* -------------------------------------------- history of a concept (ghost)
Reinforced(w) == [kind |-> "reinforce", v |-> w]
Evaporated(r) == [kind |-> "evaporate", v |-> r]

HistAfterReinforce(h, c, w) ==
    IF c \in DOMAIN h THEN [h EXCEPT ![c] = Append(@, Reinforced(w))]
    ELSE h @@ (c :> <<Reinforced(w)>>)

HistAfterEvaporate(h, r, kept) ==
    [c \in DOMAIN h |-> IF c \in kept THEN Append(h[c], Evaporated(r)) ELSE <<>>]

\* ------------------------------------------------------------ the store
\* The store and the record of the calls, as one value: each SwarmEnvironment
\* method maps the store before the call to the store after it.
Store ==
    [conn |-> conn, clock |-> clock, concepts |-> concepts, tasks |-> tasks,
     facts |-> facts, memories |-> memories, ret |-> ret, ncalls |-> ncalls,
     evaps |-> evaps, hist |-> hist, pruned |-> pruned]

SetStore(s) ==
    /\ conn' = s.conn
    /\ clock' = s.clock
    /\ concepts' = s.concepts
    /\ tasks' = s.tasks
    /\ facts' = s.facts
    /\ memories' = s.memories
    /\ ret' = s.ret
    /\ ncalls' = s.ncalls
    /\ evaps' = s.evaps
    /\ hist' = s.hist
    /\ pruned' = s.pruned

Called(s, r) == [s EXCEPT !.ret = r, !.ncalls = @ + 1]

\* --------------------------------------------- SwarmEnvironment methods
reinforce_concept(s, c, w) ==
    IF s.conn = "none"
    THEN Called(s, Ret("reinforce_concept", NotConnected, NoRows, c, w))
    ELSE Called([s EXCEPT !.concepts = UpsertConcept(@, c, w),
                          !.hist = HistAfterReinforce(@, c, w),
                          !.pruned = @ \ {c}],
                Ret("reinforce_concept", ConceptReinforced(c), NoRows, c, w))

evaporate(s, r) ==
    IF s.conn = "none"
    THEN Called(s, Ret("evaporate", NotConnected, NoRows, "", r))
    ELSE LET after == PruneNegligible(DecayAll(s.concepts, r))
         IN  Called([s EXCEPT !.concepts = after,
                              !.hist = HistAfterEvaporate(@, r, DOMAIN after),
                              !.evaps = @ + 1,
                              !.pruned = @ \cup (DOMAIN s.concepts \ DOMAIN after)],
                    Ret("evaporate", PheromonesEvaporated, NoRows, "", r))

\* the results get_strongest_concepts(limit) can return
get_strongest_concepts(s, limit) ==
    IF s.conn = "none" THEN {NoRows}
    ELSE {[i \in DOMAIN ids |-> [concept |-> ids[i], strength |-> s.concepts[ids[i]]]] :
             ids \in StrongestRows(s.concepts, limit)}

add_fact(s, fact, source_agent_id) ==
    IF s.conn = "none"
    THEN Called(s, Ret("add_fact", NotConnected, NoRows, source_agent_id, 0))
    ELSE Called([s EXCEPT !.facts = InsertFact(@, fact, source_agent_id, s.clock)],
                Ret("add_fact", FactAdded(source_agent_id), NoRows, source_agent_id, 0))

\* the results get_facts(query, limit) can return
get_facts(s, query, limit) ==
    IF s.conn = "none" THEN {NoRows}
    ELSE {FactRows(s.facts, ids) : ids \in FactIds(s.facts, query, limit)}

add_task(s, description, source_agent_id) ==
    IF s.conn = "none"
    THEN Called(s, Ret("add_task", NotConnected, NoRows, source_agent_id, 0))
    ELSE Called([s EXCEPT !.tasks = InsertTask(@, description, source_agent_id, s.clock)],
                Ret("add_task", TaskAdded(description, source_agent_id), NoRows, source_agent_id, 0))

\* the results get_available_tasks(limit) can return
get_available_tasks(s, limit) ==
    IF s.conn = "none" THEN {NoRows}
    ELSE {TaskRows(s.tasks, ids) : ids \in AvailableIds(s.tasks, limit)}

mark_task_as_completed(s, id, assigned_agent_id) ==
    IF s.conn = "none"
    THEN Called(s, Ret("mark_task_as_completed", NotConnected, NoRows, assigned_agent_id, id))
    ELSE Called([s EXCEPT !.tasks = UpdateCompleted(@, id, assigned_agent_id, s.clock)],
                Ret("mark_task_as_completed",
                    IF RowCount(s.tasks, id, assigned_agent_id) > 0
                    THEN TaskCompleted(id) ELSE TaskNotOwned(id),
                    NoRows, assigned_agent_id, id))

\* ------------------------------------------------ tools (src/src/tools.py)
\* add_long_term_memory uses memory_system.sqlite_conn, the connection of the
\* SwarmEnvironment
add_long_term_memory(s, content) ==
    IF s.conn = "none" THEN s
    ELSE [s EXCEPT !.memories = InsertMemory(@, content)]

NoMemories(query) == <<"No specific memories found in SQLite for ", query>>
MemoryUnavailable == <<"Error: SQLite connection not available.">>

search_long_term_memory(s, query) ==
    IF s.conn = "none" THEN MemoryUnavailable
    ELSE LET found == NewestMatches(s.memories, query, 5)
         IN  IF found = <<>> THEN NoMemories(query) ELSE found

\* f"{strength:.2f}": the strength in hundredths, rounded to the nearest.  The
\* column holds a binary double: a strength half-way between two hundredths
\* is stored a little above or a little below, and prints either way.
Format2f(p) ==
    LET unit == Pow10(MaxEvap)
        down == p \div unit
    IN  IF 2 * (p % unit) = unit THEN {ToString(down), ToString(down + 1)}
        ELSE IF 2 * (p % unit) > unit THEN {ToString(down + 1)}
        ELSE {ToString(down)}

\* the texts ", ".join(...) can build from the rows
RECURSIVE FormatConcepts(_)
FormatConcepts(rows) ==
    IF rows = <<>> THEN {<<>>}
    ELSE {<<rows[1].concept, " (strength: ", strength, ")">> \o rest :
             strength \in Format2f(rows[1].strength), rest \in FormatConcepts(Tail(rows))}

get_strongest_concepts_tool(s, limit) ==
    UNION {IF rows = <<>> THEN {<<"No concepts found in the shared environment.">>}
           ELSE {<<"Strongest concepts: ">> \o text : text \in FormatConcepts(rows)} :
              rows \in get_strongest_concepts(s, limit)}

RECURSIVE FormatFacts(_)
FormatFacts(rows) ==
    IF rows = <<>> THEN <<>>
    ELSE <<rows[1].content, " (by ", rows[1].source_agent_id, ")">> \o FormatFacts(Tail(rows))

get_facts_from_swarm(s, query, limit) ==
    {IF rows = <<>> THEN <<"No facts found in the shared environment.">>
     ELSE <<"Discovered facts: ">> \o FormatFacts(rows) :
        rows \in get_facts(s, query, limit)}

\* ------------------------------------------------- messages and AgentState
NoId == [round |-> 0, idx |-> 0]

HumanMessage(content) ==
    [type |-> "human", content |-> content, tool_calls |-> <<>>, tool_call_id |-> NoId]

AIMessage(content, tool_calls) ==
    [type |-> "ai", content |-> content, tool_calls |-> tool_calls, tool_call_id |-> NoId]

ToolMessage(content, tool_call_id) ==
    [type |-> "tool", content |-> content, tool_calls |-> <<>>, tool_call_id |-> tool_call_id]

\* the AgentState of a thread that has not run yet
InitialAgentState ==
    [messages |-> <<>>, input |-> "", plan |-> <<>>, retrieved_memories |-> <<>>,
     iterations |-> 0, tool_outputs |-> <<>>]

\* ------------------------------------------------------------ tool_executor
\* tools = [web_search, add_long_term_memory, search_long_term_memory,
\*          reinforce_concept, get_strongest_concepts, add_fact_to_swarm, get_facts_from_swarm]
ToolNames ==
    {"web_search", "add_long_term_memory", "search_long_term_memory", "reinforce_concept",
     "get_strongest_concepts", "add_fact_to_swarm", "get_facts_from_swarm"}

\* the arguments of a tool call: whether they fit the tool's signature, and the
\* text, agent id and number (weight or limit) they carry
Args(valid, text, who, num) == [valid |-> valid, text |-> text, who |-> who, num |-> num]

ToolCall(name, args) == [name |-> name, args |-> args, id |-> NoId]

Outcome(s, content) == [store |-> s, content |-> content]

\* what tool.invoke(args) of a registered tool can do: the store after it and str(output)
InvokeTool(s, call) ==
    CASE call.name = "web_search" ->
            {Outcome(s, <<"Here are the simulated search results for ", call.args.text>>)}
      [] call.name = "add_long_term_memory" ->
            {Outcome(add_long_term_memory(s, call.args.text),
                     IF s.conn = "none" THEN MemoryUnavailable
                     ELSE <<"Successfully added content to long-term memory.">>)}
      [] call.name = "search_long_term_memory" ->
            {Outcome(s, search_long_term_memory(s, call.args.text))}
      [] call.name = "reinforce_concept" ->
            LET after == reinforce_concept(s, call.args.text, call.args.num)
            IN  {Outcome(after, after.ret.status)}
      [] call.name = "add_fact_to_swarm" ->
            LET after == add_fact(s, call.args.text, call.args.who)
            IN  {Outcome(after, after.ret.status)}
      [] call.name = "get_strongest_concepts" ->
            {Outcome(s, text) : text \in get_strongest_concepts_tool(s, call.args.num)}
      [] call.name = "get_facts_from_swarm" ->
            {Outcome(s, text) : text \in get_facts_from_swarm(s, call.args.text, call.args.num)}

\* one pass of the loop of tool_executor: the ToolMessage content of one tool call
UnknownToolAsError(s, call) ==
    IF call.name \notin ToolNames \/ ~call.args.valid
    THEN {Outcome(s, <<"Error: ", "invalid arguments">>)}
    ELSE InvokeTool(s, call)

RunToolCall(s, call) ==
    IF call.name \notin ToolNames
    THEN {Outcome(s, <<"Tool '", call.name, "' not found.">>)}
    ELSE IF ~call.args.valid
    THEN {Outcome(s, <<"Error: ", "invalid arguments">>)}
    ELSE InvokeTool(s, call)

RECURSIVE tool_executor(_, _)
tool_executor(s, tool_calls) ==
    IF tool_calls = <<>> THEN {[store |-> s, tool_messages |-> <<>>]}
    ELSE UNION {
           {[store |-> rest.store,
             tool_messages |-> <<ToolMessage(o.content, Head(tool_calls).id)>> \o rest.tool_messages] :
                rest \in tool_executor(o.store, Tail(tool_calls))} :
           o \in RunToolCall(s, Head(tool_calls))}

\* ------------------------------------------------------------------ nodes
\* reasoning_node, when the chain returned `response`
reasoning_node(s, state, response) ==
    [state EXCEPT !.messages = Append(@, response),
                  !.plan = response.content,
                  !.retrieved_memories = search_long_term_memory(s, state.input),
                  !.iterations = @ + 1]

\* reflection_node, when the chain returned a response with the content
\* `learned_summary`: the store after it (the node returns state unchanged)
SummaryOnly(s, state, learned_summary) == add_long_term_memory(s, learned_summary)

reflection_node(s, state, learned_summary) ==
    reinforce_concept(add_long_term_memory(s, learned_summary), state.input, DefaultWeight)

\* tool_executor_node, when tool_executor returned `tool_outputs`
ToolOutputsFirst(state, tool_outputs) ==
    [state EXCEPT !.messages = tool_outputs \o @,
                  !.tool_outputs = tool_outputs \o @]

tool_executor_node(state, tool_outputs) ==
    [state EXCEPT !.messages = @ \o tool_outputs,
                  !.tool_outputs = @ \o tool_outputs]

\* should_continue reads last_message.tool_calls.  Only an AIMessage has that
\* attribute: on a HumanMessage or a ToolMessage the read raises AttributeError.
ToolsAlways(state) == "continue_to_tools"

should_continue(state) ==
    LET last_message == state.messages[Len(state.messages)]
    IN  IF last_message.type = "ai"
        THEN IF last_message.tool_calls # <<>> THEN "continue_to_tools" ELSE "end"
        ELSE "AttributeError"

\* graph_builder: the entry point and the edges
EntryPoint == "reasoning_engine"
END == "__end__"

ConditionalEdges(route) ==
    CASE route = "continue_to_tools" -> "tool_executor"
      [] route = "end" -> "reflection"

Edge(from) ==
    CASE from = "tool_executor" -> "reasoning_engine"
      [] from = "reflection" -> END

\* ------------------------------------------------------------ the oracle
Thought == <<"thought">>
Summary == "lessons"

\* the tool invocations the decisions of the oracle are made of: registered
\* tools, a registered tool with arguments it rejects, and a tool that
\* graph.py does not register
WebSearch == ToolCall("web_search", Args(TRUE, "query", "", 0))
BadWebSearch == ToolCall("web_search", Args(FALSE, "", "", 0))
ReinforceCats == ToolCall("reinforce_concept", Args(TRUE, "cats", "", DefaultWeight))
AddFact == ToolCall("add_fact_to_swarm", Args(TRUE, "cats purr", "agent_1", 0))
GetFacts == ToolCall("get_facts_from_swarm", Args(TRUE, "", "", 5))
GetStrongest == ToolCall("get_strongest_concepts", Args(TRUE, "", "", 5))
AddMemory == ToolCall("add_long_term_memory", Args(TRUE, "cats", "", 0))
SearchMemory == ToolCall("search_long_term_memory", Args(TRUE, "cats", "", 0))
AddTask == ToolCall("add_task_to_swarm", Args(TRUE, "research Z", "agent_1", 0))

\* in one behaviour the oracle draws from one of these
OracleAlphabets ==
    {{WebSearch, BadWebSearch}, {ReinforceCats, GetStrongest}, {AddFact, GetFacts},
     {AddMemory, SearchMemory}, {WebSearch, AddTask}, {BadWebSearch, AddFact}}

OracleDecisions(budget) ==
    UNION {[1..n -> oracleCalls] : n \in 0..Min(MaxBatch, budget)}

\* the invocation ids of a decision
WithIds(calls, round) ==
    [i \in DOMAIN calls |-> [calls[i] EXCEPT !.id = [round |-> round, idx |-> i]]]

\* ---------------------------------------------------------- the scheduler
AgentName(i) == "agent_" \o ToString(i)

agent_ids == [i \in 1..NumAgents |-> AgentName(i)]

initial_tasks ==
    <<"Research the benefits of renewable energy.",
      "Find recent advancements in AI ethics.",
      "Summarize the history of space exploration.">>

DefaultGoal == "Generate a new research question related to current global challenges."

\* run_multi_agent_test: the thread of its last run
summary_agent_id == "agent_summarizer"

\* the thread the running graph belongs to
Agent == IF agentIdx \in DOMAIN agent_ids THEN agent_ids[agentIdx] ELSE summary_agent_id

\* get_available_tasks_from_swarm: the text it returns, as the sequence of its parts
NoPendingTasks == "No pending tasks"

RECURSIVE FormatTasks(_)
FormatTasks(rows) ==
    IF rows = <<>> THEN <<>>
    ELSE <<"Task ID: ", ToString(rows[1].id), ", Description: ", rows[1].description,
           " (from ", rows[1].assigned_agent_id, ")">> \o FormatTasks(Tail(rows))

get_available_tasks_from_swarm(rows) ==
    IF rows = <<>> THEN <<NoPendingTasks>> ELSE FormatTasks(rows)

\* str.split(sep): the parts of a text between the occurrences of sep
RECURSIVE Split(_, _)
Split(text, sep) ==
    IF \A i \in DOMAIN text : text[i] # sep THEN <<text>>
    ELSE LET k == CHOOSE i \in DOMAIN text :
                      text[i] = sep /\ \A j \in 1..(i - 1) : text[j] # sep
         IN  <<SubSeq(text, 1, k - 1)>> \o Split(SubSeq(text, k + 1, Len(text)), sep)

\* int(text): 0 stands for the ValueError
ParseInt(text) ==
    IF Len(text) = 1 /\ \E n \in 1..99 : ToString(n) = text[1]
    THEN CHOOSE n \in 1..99 : ToString(n) = text[1]
    ELSE 0

\* the task id and description the turn parses out of available_tasks_str;
\* an exception while parsing leaves both None
ParsePick(available_tasks_str) ==
    LET none == [task_id |-> 0, task_description |-> ""]
    IN  IF \E i \in DOMAIN available_tasks_str : available_tasks_str[i] = NoPendingTasks
        THEN none
        ELSE LET byId == Split(available_tasks_str, "Task ID: ")
             IN  IF Len(byId) < 2 THEN none
                 ELSE LET task_info_parts == Split(byId[2], ", Description: ")
                      IN  IF Len(task_info_parts) < 2 \/ ParseInt(task_info_parts[1]) = 0
                          THEN none
                          ELSE LET desc == Split(task_info_parts[2], " (from ")[1]
                               IN  [task_id |-> ParseInt(task_info_parts[1]),
                                    task_description |-> IF desc = <<>> THEN "" ELSE desc[1]]

\* ----------------------------------------------------- agent_graph: steps
\* agent_graph.invoke(input, config): the input is written over the state saved
\* for the thread, and the graph starts at its entry point
StartRun(agent, input) ==
    /\ checkpoint' = [checkpoint EXCEPT ![agent] =
                         [@ EXCEPT !.messages = <<HumanMessage(<<input>>)>>, !.input = input]]
    /\ node' = EntryPoint
    /\ cycles' = 0
    /\ runs' = runs + 1

\* reasoning_engine: the chain answers with a decision
Reason ==
    /\ spc = "graph"
    /\ node = "reasoning_engine"
    /\ \E calls \in OracleDecisions(toolBudget) :
          LET state == checkpoint[Agent]
              response == AIMessage(Thought, WithIds(calls, state.iterations + 1))
              updated_state == reasoning_node(Store, state, response)
          IN  /\ checkpoint' = [checkpoint EXCEPT ![Agent] = updated_state]
              /\ node' = ConditionalEdges(should_continue(updated_state))
              /\ toolBudget' = toolBudget - Len(calls)
    /\ UNCHANGED <<envVars, schedVars, cycles, runs, oracleCalls, failBudget>>
    /\ UNCHANGED concVars
    /\ UNCHANGED testVars

\* reasoning_engine: the chain raises; the node logs and returns state, and
\* should_continue is asked about the state the node was given.  Its
\* AttributeError leaves agent_graph.invoke, and run_autonomous_swarm, which
\* catches nothing.
ReasonFails ==
    /\ spc = "graph"
    /\ node = "reasoning_engine"
    /\ failBudget > 0
    /\ failBudget' = failBudget - 1
    /\ LET route == should_continue(checkpoint[Agent])
       IN  IF route = "AttributeError"
           THEN spc' = "raised" /\ node' = node
           ELSE spc' = spc /\ node' = ConditionalEdges(route)
    /\ UNCHANGED <<envVars, added, iteration, agentIdx, task_id, goal, picked,
                   checkpoint, cycles, runs, oracleCalls, toolBudget>>
    /\ UNCHANGED concVars
    /\ UNCHANGED testVars

\* tool_executor: the tool calls of the last message are run in order
ToolExecutor ==
    /\ spc = "graph"
    /\ node = "tool_executor"
    /\ LET state == checkpoint[Agent]
           last_message == state.messages[Len(state.messages)]
       IN  \E done \in tool_executor(Store, last_message.tool_calls) :
              /\ SetStore(done.store)
              /\ checkpoint' = [checkpoint EXCEPT ![Agent] =
                                   tool_executor_node(state, done.tool_messages)]
    /\ node' = Edge("tool_executor")
    /\ cycles' = cycles + 1
    /\ UNCHANGED <<schedVars, runs, oracleCalls, toolBudget, failBudget>>
    /\ UNCHANGED concVars
    /\ UNCHANGED testVars

\* reflection: the summary is stored and the input reinforced; the graph ends
\* and agent_graph.invoke returns
Reflect ==
    /\ spc = "graph"
    /\ node = "reflection"
    /\ SetStore(reflection_node(Store, checkpoint[Agent], Summary))
    /\ node' = Edge("reflection")
    /\ spc' = "complete"
    /\ UNCHANGED <<added, iteration, agentIdx, task_id, goal, picked,
                   checkpoint, cycles, runs, oracleCalls, toolBudget, failBudget>>
    /\ UNCHANGED concVars
    /\ UNCHANGED testVars

\* reflection: the chain raises; the node logs and returns state
ReflectFailsRaises ==
    /\ spc = "graph"
    /\ node = "reflection"
    /\ failBudget > 0
    /\ failBudget' = failBudget - 1
    /\ node' = node
    /\ spc' = "raised"
    /\ UNCHANGED <<envVars, added, iteration, agentIdx, task_id, goal, picked,
                   checkpoint, cycles, runs, oracleCalls, toolBudget>>
    /\ UNCHANGED concVars
    /\ UNCHANGED testVars

ReflectFails ==
    /\ spc = "graph"
    /\ node = "reflection"
    /\ failBudget > 0
    /\ failBudget' = failBudget - 1
    /\ node' = Edge("reflection")
    /\ spc' = "complete"
    /\ UNCHANGED <<envVars, added, iteration, agentIdx, task_id, goal, picked,
                   checkpoint, cycles, runs, oracleCalls, toolBudget>>
    /\ UNCHANGED concVars
    /\ UNCHANGED testVars

\* reflection: the chain answers and one statement of the store raises.  An
\* INSERT INTO memories that raises is caught inside add_long_term_memory,
\* which returns an error text, and the node goes on to reinforce_concept; a
\* reinforce_concept that raises (its handler names sqlite3, which swarm.py
\* does not import) is caught by the node's `except Exception`, after the
\* summary was stored.  Either way the node logs and returns state.
ReflectStoreFails ==
    /\ spc = "graph"
    /\ node = "reflection"
    /\ conn = "open"
    /\ failBudget > 0
    /\ failBudget' = failBudget - 1
    /\ \/ SetStore(reinforce_concept(Store, checkpoint[Agent].input, DefaultWeight))
       \/ SetStore(add_long_term_memory(Store, Summary))
    /\ node' = Edge("reflection")
    /\ spc' = "complete"
    /\ UNCHANGED <<added, iteration, agentIdx, task_id, goal, picked,
                   checkpoint, cycles, runs, oracleCalls, toolBudget>>
    /\ UNCHANGED concVars
    /\ UNCHANGED testVars

\* -------------------------------------------- run_autonomous_swarm: steps
max_iterations == MaxIterations

\* for i, task_desc in enumerate(initial_tasks): add_task_to_swarm.invoke(...)
AddInitialTask ==
    /\ spc = "init"
    /\ added < Len(initial_tasks)
    /\ SetStore(add_task(Store, initial_tasks[added + 1], SystemInitializer))
    /\ added' = added + 1
    /\ UNCHANGED <<spc, iteration, agentIdx, task_id, goal, picked, graphVars>>
    /\ UNCHANGED concVars
    /\ UNCHANGED testVars

\* for iteration in range(max_iterations): swarm_environment.evaporate()
BeginIteration ==
    /\ \/ spc = "init" /\ added = Len(initial_tasks)
       \/ spc = "next_iteration"
    /\ iteration < max_iterations
    /\ SetStore(evaporate(Store, DefaultDecay))
    /\ iteration' = iteration + 1
    /\ agentIdx' = 1
    /\ spc' = "turn"
    /\ UNCHANGED <<added, task_id, goal, picked, graphVars>>
    /\ UNCHANGED concVars
    /\ UNCHANGED testVars

\* an agent's turn begins: it reads one available task, takes it as its goal
\* or makes up a goal, and its graph is invoked
PickTask ==
    /\ spc = "turn"
    /\ \E rows \in get_available_tasks(Store, 1) :
          LET pick == ParsePick(get_available_tasks_from_swarm(rows))
              current_task_input == IF pick.task_description # ""
                                    THEN pick.task_description ELSE DefaultGoal
          IN  /\ task_id' = pick.task_id
              /\ goal' = current_task_input
              /\ picked' = IF pick.task_id = 0 THEN picked
                            ELSE IF pick.task_id \in DOMAIN picked
                            THEN [picked EXCEPT ![pick.task_id] = @ + 1]
                            ELSE picked @@ (pick.task_id :> 1)
              /\ StartRun(Agent, current_task_input)
    /\ spc' = "graph"
    /\ UNCHANGED <<envVars, added, iteration, agentIdx, oracleCalls, toolBudget, failBudget>>
    /\ UNCHANGED concVars
    /\ UNCHANGED testVars

\* a completion whose "not found or not assigned to you" ends the turn
CompleteHeldTaskOrStop ==
    /\ spc = "complete"
    /\ IF task_id # 0
       THEN SetStore(mark_task_as_completed(Store, task_id, Agent))
       ELSE UNCHANGED envVars
    /\ spc' = IF task_id # 0 /\ ~TaskMatches(tasks, task_id, Agent)
              THEN "next_iteration" ELSE "reinforce"
    /\ UNCHANGED <<added, iteration, agentIdx, task_id, goal, picked, graphVars>>
    /\ UNCHANGED concVars
    /\ UNCHANGED testVars

\* if task_id: mark_task_completed_in_swarm.invoke(...)
CompleteHeldTask ==
    /\ spc = "complete"
    /\ IF task_id # 0
       THEN SetStore(mark_task_as_completed(Store, task_id, Agent))
       ELSE UNCHANGED envVars
    /\ spc' = "reinforce"
    /\ UNCHANGED <<added, iteration, agentIdx, task_id, goal, picked, graphVars>>
    /\ UNCHANGED concVars
    /\ UNCHANGED testVars

\* a scheduler that reinforces the goal with twice the weight
ReinforceGoalDouble ==
    /\ spc = "reinforce"
    /\ SetStore(reinforce_concept(Store, goal, 2 * DefaultWeight))
    /\ IF agentIdx < NumAgents
       THEN agentIdx' = agentIdx + 1 /\ spc' = "turn"
       ELSE agentIdx' = agentIdx /\ spc' = "next_iteration"
    /\ UNCHANGED <<added, iteration, task_id, goal, picked, graphVars>>
    /\ UNCHANGED concVars
    /\ UNCHANGED testVars

\* swarm_environment.reinforce_concept(current_task_input, weight=1.0); the
\* swarm state is logged; the next agent, or the next iteration, follows
ReinforceGoal ==
    /\ spc = "reinforce"
    /\ SetStore(reinforce_concept(Store, goal, DefaultWeight))
    /\ IF agentIdx < NumAgents
       THEN agentIdx' = agentIdx + 1 /\ spc' = "turn"
       ELSE agentIdx' = agentIdx /\ spc' = "next_iteration"
    /\ UNCHANGED <<added, iteration, task_id, goal, picked, graphVars>>
    /\ UNCHANGED concVars
    /\ UNCHANGED testVars

\* the loop is over: memory_system.close()
Finish ==
    /\ \/ spc = "init" /\ added = Len(initial_tasks)
       \/ spc = "next_iteration"
    /\ iteration = max_iterations
    /\ spc' = "finished"
    /\ conn' = IF conn = "open" THEN "closed" ELSE conn
    /\ UNCHANGED <<clock, concepts, tasks, facts, memories, ret, ncalls, evaps, hist, pruned,
                   added, iteration, agentIdx, task_id, goal, picked, graphVars>>
    /\ UNCHANGED concVars
    /\ UNCHANGED testVars

\* a second passes: CURRENT_TIMESTAMP advances
Tick ==
    /\ clock < MaxClock
    /\ clock' = clock + 1
    /\ UNCHANGED <<conn, concepts, tasks, facts, memories, ret, ncalls, evaps, hist, pruned,
                   schedVars, graphVars>>
    /\ UNCHANGED concVars
    /\ UNCHANGED testVars

\* ------------------------------------------------------------------- Init
NoCall == Ret("", <<>>, NoRows, "", 0)

\* the threads of the agents
Threads == {agent_ids[i] : i \in 1..NumAgents}

\* a thread that is in no call: pc is where it is, done the statements of its
\* call that ran, before the table its UPDATE found
ThreadIdle == [op |-> "", c |-> "", v |-> 0, pc |-> "idle", done |-> 0, before |-> <<>>]

InitThreads ==
    /\ threads = [t \in Threads |-> ThreadIdle]
    /\ committed = <<>>
    /\ issued = <<>>

InitEnv ==
    /\ conn \in {"open", "none"}
    /\ clock = 1
    /\ concepts = <<>>
    /\ tasks = <<>>
    /\ facts = <<>>
    /\ memories = <<>>
    /\ ret = NoCall
    /\ ncalls = 0
    /\ evaps = 0
    /\ hist = <<>>
    /\ pruned = {}

InitIdle ==
    /\ InitEnv
    /\ spc = "idle"
    /\ added = 0
    /\ iteration = 0
    /\ agentIdx = 1
    /\ task_id = 0
    /\ goal = ""
    /\ picked = <<>>
    /\ node = END
    /\ checkpoint = [a \in Threads |-> InitialAgentState]
    /\ cycles = 0
    /\ runs = 0
    /\ oracleCalls = {}
    /\ toolBudget = 0
    /\ failBudget = 0
    /\ InitThreads
    /\ disabled_agents = {}

\* ------------------------------- SpecConcepts: the pheromone calls, in sequence
Limits == {-1, 0, 1, 5}

ReinforceConceptCall ==
    /\ ncalls < MaxCalls
    /\ \E c \in ConceptNames, w \in Weights : SetStore(reinforce_concept(Store, c, w))
    /\ UNCHANGED <<schedVars, graphVars, concVars>>
    /\ UNCHANGED testVars

EvaporateCall ==
    /\ ncalls < MaxCalls
    /\ evaps < MaxEvap
    /\ \E r \in DecayRates : SetStore(evaporate(Store, r))
    /\ UNCHANGED <<schedVars, graphVars, concVars>>
    /\ UNCHANGED testVars

GetStrongestConceptsCall ==
    /\ ncalls < MaxCalls
    /\ \E k \in Limits : \E rows \in get_strongest_concepts(Store, k) :
          SetStore(Called(Store, Ret("get_strongest_concepts", RowsReturned, rows, "", k)))
    /\ UNCHANGED <<schedVars, graphVars, concVars>>
    /\ UNCHANGED testVars

NextConcepts ==
    \/ ReinforceConceptCall
    \/ EvaporateCall
    \/ GetStrongestConceptsCall

SpecConcepts == InitIdle /\ [][NextConcepts]_vars

\* ----------------------------------- SpecTasks: the task calls, in sequence
AddTaskCall ==
    /\ ncalls < MaxTaskCalls
    /\ Len(tasks) < MaxTasks
    /\ \E d \in TaskDescriptions, a \in AgentIds \cup {SystemInitializer} :
           SetStore(add_task(Store, d, a))
    /\ UNCHANGED <<schedVars, graphVars, concVars>>
    /\ UNCHANGED testVars

GetAvailableTasksCall ==
    /\ ncalls < MaxTaskCalls
    /\ \E k \in Limits : \E rows \in get_available_tasks(Store, k) :
          SetStore(Called(Store, Ret("get_available_tasks", RowsReturned, rows, "", k)))
    /\ UNCHANGED <<schedVars, graphVars, concVars>>
    /\ UNCHANGED testVars

MarkTaskAsCompletedCall ==
    /\ ncalls < MaxTaskCalls
    /\ \E t \in 1..(MaxTasks + 1), a \in AgentIds \cup {SystemInitializer} :
          SetStore(mark_task_as_completed(Store, t, a))
    /\ UNCHANGED <<schedVars, graphVars, concVars>>
    /\ UNCHANGED testVars

NextTasks ==
    \/ AddTaskCall
    \/ GetAvailableTasksCall
    \/ MarkTaskAsCompletedCall
    \/ Tick

SpecTasks == InitIdle /\ [][NextTasks]_vars

\* ------------------------------------ SpecSched: one run of the scheduler
InitSched ==
    /\ InitEnv
    /\ spc = "init"
    /\ added = 0
    /\ iteration = 0
    /\ agentIdx = 1
    /\ task_id = 0
    /\ goal = ""
    /\ picked = <<>>
    /\ node = END
    /\ checkpoint = [a \in Threads |-> InitialAgentState]
    /\ cycles = 0
    /\ runs = 0
    /\ oracleCalls = {WebSearch}
    /\ toolBudget = MaxToolCalls
    /\ failBudget = MaxFailures
    /\ InitThreads
    /\ disabled_agents = {}

NextSched ==
    \/ AddInitialTask
    \/ BeginIteration
    \/ PickTask
    \/ Reason
    \/ ReasonFails
    \/ ToolExecutor
    \/ Reflect
    \/ ReflectFails
    \/ ReflectStoreFails
    \/ CompleteHeldTask
    \/ ReinforceGoal
    \/ Finish
    \/ Tick

SpecSched == InitSched /\ [][NextSched]_vars

\* -- SpecTurns: run_autonomous_swarm with agents whose decisions invoke no tool
InitTurns ==
    /\ InitEnv
    /\ spc = "init"
    /\ added = 0
    /\ iteration = 0
    /\ agentIdx = 1
    /\ task_id = 0
    /\ goal = ""
    /\ picked = <<>>
    /\ node = END
    /\ checkpoint = [a \in Threads |-> InitialAgentState]
    /\ cycles = 0
    /\ runs = 0
    /\ oracleCalls = {}
    /\ toolBudget = 0
    /\ failBudget = MaxFailures
    /\ InitThreads
    /\ disabled_agents = {}

NextTurns ==
    \/ AddInitialTask
    \/ BeginIteration
    \/ PickTask
    \/ Reason
    \/ ReasonFails
    \/ Reflect
    \/ ReflectFails
    \/ CompleteHeldTask
    \/ ReinforceGoal
    \/ Finish

SpecTurns == InitTurns /\ [][NextTurns]_vars

\* -- SpecToolTurns: run_autonomous_swarm with agents whose decisions invoke the
\* reinforce_concept tool on the text of the first initial task
ReinforceTask ==
    ToolCall("reinforce_concept", Args(TRUE, initial_tasks[1], "", DefaultWeight))

InitToolTurns ==
    /\ InitEnv
    /\ spc = "init"
    /\ added = 0
    /\ iteration = 0
    /\ agentIdx = 1
    /\ task_id = 0
    /\ goal = ""
    /\ picked = <<>>
    /\ node = END
    /\ checkpoint = [a \in Threads |-> InitialAgentState]
    /\ cycles = 0
    /\ runs = 0
    /\ oracleCalls = {ReinforceTask}
    /\ toolBudget = MaxBatch
    /\ failBudget = MaxFailures
    /\ InitThreads
    /\ disabled_agents = {}

NextToolTurns ==
    \/ AddInitialTask
    \/ BeginIteration
    \/ PickTask
    \/ Reason
    \/ ReasonFails
    \/ ToolExecutor
    \/ Reflect
    \/ ReflectFails
    \/ CompleteHeldTask
    \/ ReinforceGoal
    \/ Finish

SpecToolTurns == InitToolTurns /\ [][NextToolTurns]_vars

\* --------------------------- SpecAgent: agent_graph.invoke on one thread
Goals == {"cats", "dogs"}

InitAgent ==
    /\ InitEnv
    /\ spc = "idle"
    /\ added = 0
    /\ iteration = 0
    /\ agentIdx = 1
    /\ task_id = 0
    /\ goal = ""
    /\ picked = <<>>
    /\ node = END
    /\ checkpoint = [a \in Threads |-> InitialAgentState]
    /\ cycles = 0
    /\ runs = 0
    /\ oracleCalls \in OracleAlphabets
    /\ toolBudget = MaxToolCalls
    /\ failBudget = MaxFailures
    /\ InitThreads
    /\ disabled_agents = {}

\* the caller invokes the graph on the thread of agent_ids[1]
Invoke ==
    /\ spc \in {"idle", "complete"}
    /\ runs < MaxRuns
    /\ \E input \in Goals :
          /\ goal' = input
          /\ StartRun(Agent, input)
    /\ spc' = "graph"
    /\ UNCHANGED <<envVars, added, iteration, agentIdx, task_id, picked,
                   oracleCalls, toolBudget, failBudget>>
    /\ UNCHANGED concVars
    /\ UNCHANGED testVars

NextAgent ==
    \/ Invoke
    \/ Reason
    \/ ReasonFails
    \/ ToolExecutor
    \/ Reflect
    \/ ReflectFails
    \/ ReflectStoreFails

SpecAgent == InitAgent /\ [][NextAgent]_vars

\* ------- SpecConc: calls from several threads on the one shared connection
\* memory.py opens one connection with check_same_thread=False and the
\* SwarmEnvironment uses it for every caller: the statements of the calls of
\* different threads interleave, all in the one transaction of the connection.
InCall(t) == threads[t].pc \in {"delete", "commit"}

\* the weights (hundredths) the threads reinforce with: 0.01 and 1.0
ThreadWeights == {1, DefaultWeight}

\* a reinforce_concept that adds its weight to the pheromone last committed,
\* and not to the one the connection holds
ReinforceFromCommitted(t) ==
    /\ ~InCall(t)
    /\ Len(issued) < MaxConcCalls
    /\ \E c \in ConceptNames, w \in ThreadWeights :
          /\ concepts' = IF c \in DOMAIN committed
                          THEN (c :> committed[c] + Amount(w)) @@ concepts
                          ELSE (c :> Amount(w)) @@ concepts
          /\ threads' = [threads EXCEPT ![t] =
                 [op |-> "reinforce_concept", c |-> c, v |-> w, pc |-> "commit",
                  done |-> 1, before |-> <<>>]]
          /\ issued' = Append(issued, [op |-> "reinforce_concept", c |-> c, v |-> w])
    /\ UNCHANGED <<conn, clock, tasks, facts, memories, ret, ncalls, evaps, hist, pruned,
                   committed, schedVars, graphVars>>
    /\ UNCHANGED testVars

\* reinforce_concept: cursor.execute(INSERT ... ON CONFLICT ... DO UPDATE)
ReinforceExecute(t) ==
    /\ ~InCall(t)
    /\ Len(issued) < MaxConcCalls
    /\ \E c \in ConceptNames, w \in ThreadWeights :
          /\ concepts' = UpsertConcept(concepts, c, w)
          /\ threads' = [threads EXCEPT ![t] =
                 [op |-> "reinforce_concept", c |-> c, v |-> w, pc |-> "commit",
                  done |-> 1, before |-> <<>>]]
          /\ issued' = Append(issued, [op |-> "reinforce_concept", c |-> c, v |-> w])
    /\ UNCHANGED <<conn, clock, tasks, facts, memories, ret, ncalls, evaps, hist, pruned,
                   committed, schedVars, graphVars>>
    /\ UNCHANGED testVars

\* evaporate: cursor.execute(UPDATE concepts SET pheromone = pheromone * ?)
EvaporateUpdate(t) ==
    /\ ~InCall(t)
    /\ Len(issued) < MaxConcCalls
    /\ evaps < MaxEvap
    /\ \E r \in DecayRates :
          /\ concepts' = DecayAll(concepts, r)
          /\ threads' = [threads EXCEPT ![t] =
                 [op |-> "evaporate", c |-> "", v |-> r, pc |-> "delete",
                  done |-> 1, before |-> concepts]]
          /\ issued' = Append(issued, [op |-> "evaporate", c |-> "", v |-> r])
    /\ evaps' = evaps + 1
    /\ UNCHANGED <<conn, clock, tasks, facts, memories, ret, ncalls, hist, pruned,
                   committed, schedVars, graphVars>>
    /\ UNCHANGED testVars

\* evaporate: cursor.execute(DELETE FROM concepts WHERE pheromone < 0.01)
EvaporateDelete(t) ==
    /\ threads[t].pc = "delete"
    /\ concepts' = PruneNegligible(concepts)
    /\ threads' = [threads EXCEPT ![t].pc = "commit", ![t].done = 2]
    /\ UNCHANGED <<conn, clock, tasks, facts, memories, ret, ncalls, evaps, hist, pruned,
                   committed, issued, schedVars, graphVars>>
    /\ UNCHANGED testVars

\* self.conn.commit(): whatever the connection has written is committed, the
\* statements of the other threads included; the call returns
Commit(t) ==
    /\ threads[t].pc = "commit"
    /\ committed' = concepts
    /\ threads' = [threads EXCEPT ![t].pc = "returned"]
    /\ UNCHANGED <<envVars, issued, schedVars, graphVars>>
    /\ UNCHANGED testVars

\* a statement raises sqlite3.Error: SQLite undoes that statement alone, and
\* the handler (which names sqlite3, a module swarm.py does not import) ends
\* the call with no rollback and no commit
StatementFails(t) ==
    /\ InCall(t)
    /\ failBudget > 0
    /\ failBudget' = failBudget - 1
    /\ threads' = [threads EXCEPT ![t].pc = "raised"]
    /\ UNCHANGED <<envVars, committed, issued, schedVars,
                   node, checkpoint, cycles, runs, oracleCalls, toolBudget>>
    /\ UNCHANGED testVars

InitConc ==
    /\ InitEnv
    /\ conn = "open"
    /\ spc = "idle"
    /\ added = 0
    /\ iteration = 0
    /\ agentIdx = 1
    /\ task_id = 0
    /\ goal = ""
    /\ picked = <<>>
    /\ node = END
    /\ checkpoint = [a \in Threads |-> InitialAgentState]
    /\ cycles = 0
    /\ runs = 0
    /\ oracleCalls = {}
    /\ toolBudget = 0
    /\ failBudget = MaxFailures
    /\ InitThreads
    /\ disabled_agents = {}

NextConc ==
    \E t \in Threads :
        \/ ReinforceExecute(t)
        \/ EvaporateUpdate(t)
        \/ EvaporateDelete(t)
        \/ Commit(t)
        \/ StatementFails(t)

SpecConc == InitConc /\ [][NextConc]_vars

\* ------- SpecReinforce: the threads call reinforce_concept and nothing else
NextReinforce ==
    \E t \in Threads :
        \/ ReinforceExecute(t)
        \/ Commit(t)
        \/ StatementFails(t)

SpecReinforce == InitConc /\ [][NextReinforce]_vars

\* ------------------------ SpecTest: run_multi_agent_test(agents_data, ...)
\* agents_data: one entry per fact-finding agent, in the order of the loop
agents_data ==
    [i \in 1..NumAgents |-> [id |-> AgentName(i), input |-> IF i % 2 = 1 THEN "cats" ELSE "dogs"]]

summary_input ==
    "Summarize the fun facts found by other agents. Use the 'get_facts_from_swarm' tool to retrieve all facts, then provide a concise summary of them."

\* if agent_id in disabled_agents
NeverDisabled(agent_id) == FALSE

Disabled(agent_id) == agent_id \in disabled_agents

\* the loop reaches a disabled agent: logging.warning and continue
SkipDisabledAgent ==
    /\ spc = "test"
    /\ agentIdx <= Len(agents_data)
    /\ Disabled(agents_data[agentIdx].id)
    /\ agentIdx' = agentIdx + 1
    /\ UNCHANGED <<envVars, spc, added, iteration, task_id, goal, picked, graphVars>>
    /\ UNCHANGED <<concVars, testVars>>

\* the loop reaches an enabled agent: it reads the strongest concepts and
\* invokes the graph on the agent's thread with the agent's input
StartAgentTask ==
    /\ spc = "test"
    /\ agentIdx <= Len(agents_data)
    /\ ~Disabled(agents_data[agentIdx].id)
    /\ \E rows \in get_strongest_concepts(Store, 5) :
          SetStore(Called(Store, Ret("get_strongest_concepts", RowsReturned, rows, "", 5)))
    /\ goal' = agents_data[agentIdx].input
    /\ StartRun(agents_data[agentIdx].id, agents_data[agentIdx].input)
    /\ spc' = "graph"
    /\ UNCHANGED <<added, iteration, agentIdx, task_id, picked, oracleCalls, toolBudget, failBudget>>
    /\ UNCHANGED <<concVars, testVars>>

\* agent_graph.invoke returned: the content of the last message is added as a
\* fact of the agent; evaporate() runs when more than evaporation_interval
\* seconds of wall-clock time have passed since the last one, which the
\* duration of the runs decides; the strongest concepts are read again
RecordAgentFact ==
    /\ spc = "complete"
    /\ agentIdx <= Len(agents_data)
    /\ LET final_state == checkpoint[Agent]
           fact_content == final_state.messages[Len(final_state.messages)].content
           recorded == add_fact(Store, fact_content, agents_data[agentIdx].id)
       IN  \E elapsed \in BOOLEAN :
              /\ elapsed => evaps < MaxEvap
              /\ LET after == IF elapsed THEN evaporate(recorded, DefaultDecay) ELSE recorded
                 IN  \E rows \in get_strongest_concepts(after, 5) :
                        SetStore(Called(after, Ret("get_strongest_concepts", RowsReturned,
                                                   rows, "", 5)))
    /\ agentIdx' = agentIdx + 1
    /\ spc' = "test"
    /\ UNCHANGED <<added, iteration, task_id, goal, picked, graphVars>>
    /\ UNCHANGED <<concVars, testVars>>

\* after the loop: the summarization agent is invoked on its own thread
StartSummary ==
    /\ spc = "test"
    /\ agentIdx = Len(agents_data) + 1
    /\ goal' = summary_input
    /\ StartRun(summary_agent_id, summary_input)
    /\ spc' = "graph"
    /\ UNCHANGED <<envVars, added, iteration, agentIdx, task_id, picked,
                   oracleCalls, toolBudget, failBudget>>
    /\ UNCHANGED <<concVars, testVars>>

\* the summary run returned: memory_system.close()
CloseTest ==
    /\ spc = "complete"
    /\ agentIdx = Len(agents_data) + 1
    /\ spc' = "finished"
    /\ conn' = IF conn = "open" THEN "closed" ELSE conn
    /\ UNCHANGED <<clock, concepts, tasks, facts, memories, ret, ncalls, evaps, hist, pruned,
                   added, iteration, agentIdx, task_id, goal, picked, graphVars>>
    /\ UNCHANGED <<concVars, testVars>>

InitTest ==
    /\ InitEnv
    /\ spc = "test"
    /\ added = 0
    /\ iteration = 0
    /\ agentIdx = 1
    /\ task_id = 0
    /\ goal = ""
    /\ picked = <<>>
    /\ node = END
    /\ checkpoint = [a \in Threads \cup {summary_agent_id} |-> InitialAgentState]
    /\ cycles = 0
    /\ runs = 0
    /\ oracleCalls = {WebSearch}
    /\ toolBudget = MaxBatch
    /\ failBudget = MaxFailures
    /\ InitThreads
    /\ disabled_agents \in SUBSET Threads

NextTest ==
    \/ SkipDisabledAgent
    \/ StartAgentTask
    \/ Reason
    \/ ReasonFails
    \/ ToolExecutor
    \/ Reflect
    \/ ReflectFails
    \/ ReflectStoreFails
    \/ RecordAgentFact
    \/ StartSummary
    \/ CloseTest
    \/ Tick

SpecTest == InitTest /\ [][NextTest]_vars

\* ------------------------------------ SpecFacts: the fact calls, in sequence
\* the facts the callers add, and the queries they ask with
FactInputs == {<<"cats purr", "agent_1">>, <<"dogs bark", "agent_2">>}
Queries == {"cats", "r"}
DefaultLimit == 5

AddFactCall ==
    /\ ncalls < MaxFactCalls
    /\ \E f \in FactInputs : SetStore(add_fact(Store, f[1], f[2]))
    /\ UNCHANGED <<schedVars, graphVars, concVars, testVars>>

GetFactsCall ==
    /\ ncalls < MaxFactCalls
    /\ \E query \in Queries, limit \in {1, DefaultLimit} : \E rows \in get_facts(Store, query, limit) :
          SetStore(Called(Store, Ret("get_facts", RowsReturned, rows, query, limit)))
    /\ UNCHANGED <<schedVars, graphVars, concVars, testVars>>

NextFacts ==
    \/ AddFactCall
    \/ GetFactsCall
    \/ Tick

SpecFacts == InitIdle /\ [][NextFacts]_vars

\* ======================================================================
\* Claims
\* ======================================================================

\* ---- C1 ----------------------------------------------------------------
CompleteStep == ncalls' = ncalls + 1 /\ ret'.op = "mark_task_as_completed"

\* the task the call names is assigned to the agent the call names
OwnedBy(id, agent) ==
    id \in DOMAIN tasks /\ tasks[id].assigned_agent_id = agent

\* C1: mark_task_as_completed(id, a) completes and stamps the task only if
\* its assigned_agent_id equals a; with another agent, or no such task, the
\* tasks are unchanged and the call returns the not-owned result, which is
\* not the success result.
C1_CompleteOnlyByAssignee ==
    [][ CompleteStep =>
          /\ (tasks' # tasks \/ ret'.status = TaskCompleted(ret'.num)) => OwnedBy(ret'.num, ret'.arg)
          /\ ~OwnedBy(ret'.num, ret'.arg) =>
                /\ tasks' = tasks
                /\ ret'.status # TaskCompleted(ret'.num)
                /\ conn = "open" => ret'.status = TaskNotOwned(ret'.num)
          /\ (OwnedBy(ret'.num, ret'.arg) /\ conn = "open") =>
                /\ ret'.status = TaskCompleted(ret'.num)
                /\ tasks'[ret'.num].status = "completed"
                /\ tasks'[ret'.num].completed_at = clock
                /\ \A i \in DOMAIN tasks : i # ret'.num => tasks'[i] = tasks[i] ]_vars

\* a call by an agent the task is not assigned to left the task pending
C1_Witness ==
    /\ ret.op = "mark_task_as_completed"
    /\ ret.status = TaskNotOwned(ret.num)
    /\ ret.num \in DOMAIN tasks
    /\ tasks[ret.num].assigned_agent_id # ret.arg
    /\ tasks[ret.num].status = "pending"
    /\ tasks[ret.num].completed_at = NullTime

\* ---- C2 ----------------------------------------------------------------
\* the turn has run its graph to the end and has called
\* mark_task_completed_in_swarm for the task it picked
HeldTaskReported ==
    spc = "reinforce" /\ task_id # 0 /\ conn = "open" /\ failBudget = MaxFailures

\* C2: in a scheduler run, once an agent has picked the oldest pending task,
\* run its graph to the end and reported the task completed under its own
\* agent id, the task is completed and get_available_tasks(1) no longer
\* returns it.
C2_ReportedTaskIsCompleted ==
    HeldTaskReported =>
        /\ tasks[task_id].status = "completed"
        /\ \A rows \in get_available_tasks(Store, 1) :
               \A i \in DOMAIN rows : rows[i].id # task_id

\* ---- C3 ----------------------------------------------------------------
\* C3: over a scheduler run no task is the goal of more than one agent turn.
C3_TaskPickedAtMostOnce ==
    \A id \in DOMAIN picked : picked[id] <= 1

\* ---- C4 ----------------------------------------------------------------
LastMessage(state) == state.messages[Len(state.messages)]

\* agent_graph.invoke begins a run
RunStarts == runs' = runs + 1

\* the step leaves agent_graph.invoke with an exception
RunRaises == spc = "graph" /\ spc' = "raised"

\* C4: a run starts at reasoning_engine; reasoning_engine is followed by
\* tool_executor if the decision just made holds a tool invocation and by
\* reflection if it holds none; tool_executor is followed by
\* reasoning_engine; reflection is followed by the end of the graph; and the
\* end of the graph is left only by the start of another run.
C4_TransitionRelation ==
    [][ /\ RunStarts => node' = "reasoning_engine"
        /\ (~RunStarts /\ ~RunRaises /\ node = "reasoning_engine") =>
              LET decision == LastMessage(checkpoint'[Agent])
              IN  /\ decision.type = "ai"
                  /\ decision.tool_calls # <<>> => node' = "tool_executor"
                  /\ decision.tool_calls = <<>> => node' = "reflection"
        /\ (~RunStarts /\ node = "tool_executor") => node' = "reasoning_engine"
        /\ (~RunStarts /\ node = "reflection") => node' = END
        /\ (~RunStarts /\ node = END) => node' = END
        /\ RunRaises => node' = node ]_vars

\* a run went through tool_executor, came back to reasoning_engine, took the
\* branch to reflection on a decision without tool invocations, and ended
C4_Witness ==
    /\ spc = "complete"
    /\ node = END
    /\ cycles >= 1
    /\ LastMessage(checkpoint[Agent]).type = "ai"
    /\ LastMessage(checkpoint[Agent]).tool_calls = <<>>

\* ---- C5 ----------------------------------------------------------------
\* the call of the oracle in reasoning_node raises
OracleFailsInReasoning ==
    node = "reasoning_engine" /\ spc = "graph" /\ failBudget' = failBudget - 1

\* C5: when the oracle fails in reasoning_engine the agent state is left as
\* it was, the graph stays at reasoning_engine, to run it again, and the run
\* does not fail.
C5_FailedReasoningIsRetried ==
    [][ OracleFailsInReasoning =>
            /\ checkpoint' = checkpoint
            /\ node' = "reasoning_engine"
            /\ spc' = "graph" ]_vars

\* ---- C6 ----------------------------------------------------------------
\* C6: the tool_executor rounds of one run started by the scheduler do not
\* exceed the max_iterations the scheduler was given.
C6_CyclesWithinMaxIterations ==
    (conn = "open" /\ spc \in {"graph", "complete"}) => cycles <= max_iterations

\* ---- C7 ----------------------------------------------------------------
\* thread t is in an evaporate, or has left one by an exception, whose
\* UPDATE ran and whose DELETE did not
DecayWithoutPrune(t) ==
    /\ threads[t].op = "evaporate"
    /\ threads[t].pc \in {"delete", "raised"}
    /\ threads[t].done = 1

\* the concepts of tbl that the UPDATE of t decayed to below 0.01 and that are
\* still there
DecayedBelowThreshold(t, tbl) ==
    {c \in DOMAIN tbl \cap DOMAIN threads[t].before :
        /\ tbl[c] = DecayAll(threads[t].before, threads[t].v)[c]
        /\ tbl[c] < PruneThreshold}

\* C7: no state that another caller can observe, and no state an evaporate
\* leaves behind when it fails part-way, holds the decay of an evaporate
\* without its pruning of the concepts below 0.01: neither the table the
\* callers read nor the committed table.
C7_EvaporateAllOrNothing ==
    \A t \in Threads :
        DecayWithoutPrune(t) =>
            /\ DecayedBelowThreshold(t, concepts) = {}
            /\ DecayedBelowThreshold(t, committed) = {}

\* ---- C8 ----------------------------------------------------------------
\* the call, made on its own
SequentialCall(tbl, call) ==
    IF call.op = "reinforce_concept"
    THEN UpsertConcept(tbl, call.c, call.v)
    ELSE PruneNegligible(DecayAll(tbl, call.v))

RECURSIVE RunInOrder(_, _, _)
RunInOrder(tbl, calls, order) ==
    IF order = <<>> THEN tbl
    ELSE RunInOrder(SequentialCall(tbl, calls[Head(order)]), calls, Tail(order))

\* the tables the sequential orders of the calls produce from the empty table
SequentialTables(calls) ==
    IF calls = <<>> THEN {<<>>}
    ELSE {RunInOrder(<<>>, calls, [i \in 1..Len(calls) |-> p[i]]) :
             p \in Permutations(1..Len(calls))}

\* every call issued has returned
AllReturned == \A t \in Threads : threads[t].pc \in {"idle", "returned"}

\* C8: when the reinforce_concept and evaporate calls issued by the threads
\* have all returned, the concepts table is the table some sequential order
\* of these calls produces.
C8_ConcurrentCallsSerializable ==
    (AllReturned /\ failBudget = MaxFailures) => concepts \in SequentialTables(issued)

\* ---- C9 ----------------------------------------------------------------
\* the evaporations of history h after position i
LaterRates(h, i) == {j \in DOMAIN h : j > i /\ h[j].kind = "evaporate"}

RECURSIVE KeepProduct(_, _)
KeepProduct(h, js) ==
    IF js = {} THEN 1
    ELSE LET j == CHOOSE x \in js : TRUE IN (10 - h[j].v) * KeepProduct(h, js \ {j})

\* weight i of history h, times (1 - r) for every evaporation after it
DecayedWeight(h, i) ==
    (h[i].v * KeepProduct(h, LaterRates(h, i)))
        * Pow10(MaxEvap - Cardinality(LaterRates(h, i)))

RECURSIVE SumDecayed(_, _)
SumDecayed(h, is) ==
    IF is = {} THEN 0
    ELSE LET i == CHOOSE x \in is : TRUE IN DecayedWeight(h, i) + SumDecayed(h, is \ {i})

ExpectedPheromone(h) == SumDecayed(h, {i \in DOMAIN h : h[i].kind = "reinforce"})

\* C9: after every sequence of reinforce_concept and evaporate calls, the
\* pheromone of each stored concept is the sum of the weights applied since
\* its row was created, each multiplied by (1 - r) for every evaporate that
\* came after it.
C9_PheromoneIsDecayedSum ==
    \A c \in DOMAIN concepts : concepts[c] = ExpectedPheromone(hist[c])

\* three reinforcements of 1.0 and one evaporate(0.1) leave 2.7
C9_Witness ==
    /\ "cats" \in DOMAIN hist
    /\ hist["cats"] = <<Reinforced(DefaultWeight), Reinforced(DefaultWeight),
                        Reinforced(DefaultWeight), Evaporated(DefaultDecay)>>
    /\ "cats" \in DOMAIN concepts
    /\ concepts["cats"] = Amount(270)

\* ---- C10 ---------------------------------------------------------------
EvaporateStep == evaps' = evaps + 1

StrongestStep == ncalls' = ncalls + 1 /\ ret'.op = "get_strongest_concepts"

\* p * (1 - r), computed from the rate the call was given
Decayed(p, r) == (p * (10 - r)) \div 10

\* C10: evaporate(r) replaces every pheromone p by p * (1 - r) and then
\* deletes the concepts below 0.01, so a pheromone never grows under
\* evaporation; and a concept evaporation has deleted is in no
\* get_strongest_concepts result until it is reinforced again.
C10_EvaporateDecaysAndPrunes ==
    [][ /\ EvaporateStep =>
            /\ DOMAIN concepts' =
                   {c \in DOMAIN concepts : Decayed(concepts[c], ret'.num) >= PruneThreshold}
            /\ \A c \in DOMAIN concepts' :
                   /\ concepts'[c] = Decayed(concepts[c], ret'.num)
                   /\ concepts'[c] <= concepts[c]
        /\ StrongestStep =>
            \A i \in DOMAIN ret'.rows : ret'.rows[i].concept \notin pruned' ]_vars

\* a concept was pruned by an evaporate, and a later query returned the others
C10_Witness ==
    /\ ret.op = "get_strongest_concepts"
    /\ ret.rows # <<>>
    /\ pruned # {}
    /\ evaps >= 2

\* ---- C11 ---------------------------------------------------------------
\* C11: after any sequence of reinforce_concept and evaporate calls, with
\* any weights and decay rates the calls accept, every stored concept has a
\* pheromone of at least 0.
C11_PheromoneNeverNegative ==
    \A c \in DOMAIN concepts : concepts[c] >= 0

ToolExecutorStep == node = "tool_executor" /\ cycles' = cycles + 1

\* the tool calls the node is given: those of the last message
RequestedCalls == LastMessage(checkpoint[Agent]).tool_calls

\* the messages the step added to the history
AppendedBy(before, after) == SubSeq(after, Len(before) + 1, Len(after))

\* C13: for a batch of n tool invocations the tool_executor node appends
\* exactly n tool results to the end of the message history and leaves the
\* messages before them as they were; the i-th result carries the invocation
\* id of the i-th invocation.
C13_OneResultPerCallInOrder ==
    [][ ToolExecutorStep =>
            LET before == checkpoint[Agent].messages
                after == checkpoint'[Agent].messages
                results == AppendedBy(before, after)
            IN  /\ Len(after) = Len(before) + Len(RequestedCalls)
                /\ SubSeq(after, 1, Len(before)) = before
                /\ \A i \in DOMAIN RequestedCalls :
                       /\ results[i].type = "tool"
                       /\ results[i].tool_call_id = RequestedCalls[i].id ]_vars

\* a batch of two invocations was executed: the history ends with the
\* decision and its two results, in the order of the invocations
C13_Witness ==
    \E a \in DOMAIN checkpoint :
        LET msgs == checkpoint[a].messages
            n == Len(msgs)
        IN  /\ n >= 3
            /\ msgs[n - 2].type = "ai"
            /\ Len(msgs[n - 2].tool_calls) = 2
            /\ msgs[n - 2].tool_calls[1].name # msgs[n - 2].tool_calls[2].name
            /\ msgs[n - 1].type = "tool"
            /\ msgs[n - 1].tool_call_id = msgs[n - 2].tool_calls[1].id
            /\ msgs[n].type = "tool"
            /\ msgs[n].tool_call_id = msgs[n - 2].tool_calls[2].id

\* ---- C14 ---------------------------------------------------------------
\* the rows of a table a step has added to it
RowsAdded(before, after) == Len(after) - Len(before)

\* the registered invocations of a batch that the tool accepts, by tool name
Accepted(calls, name) ==
    {i \in DOMAIN calls : calls[i].name = name /\ calls[i].args.valid}

\* C14: a failing tool does not end the run.  In a step of the tool_executor
\* node an invocation whose tool raises gets the text "Error: ..." as the
\* content of its result, and an invocation of a tool that is not registered
\* gets "Tool '...' not found."; every other invocation of the batch, before
\* or after it, is still executed (each accepted add_fact_to_swarm and
\* add_long_term_memory adds its row), and the graph goes on to
\* reasoning_engine without the run raising.
C14_ToolFailureDoesNotHaltRun ==
    [][ ToolExecutorStep =>
            LET before == checkpoint[Agent].messages
                results == AppendedBy(before, checkpoint'[Agent].messages)
            IN  /\ Len(results) = Len(RequestedCalls)
                /\ \A i \in DOMAIN RequestedCalls :
                       /\ RequestedCalls[i].name \notin ToolNames =>
                              results[i].content = <<"Tool '", RequestedCalls[i].name, "' not found.">>
                       /\ (RequestedCalls[i].name \in ToolNames /\ ~RequestedCalls[i].args.valid) =>
                              results[i].content[1] = "Error: "
                /\ conn = "open" =>
                       /\ RowsAdded(facts, facts') = Cardinality(Accepted(RequestedCalls, "add_fact_to_swarm"))
                       /\ RowsAdded(memories, memories') =
                              Cardinality(Accepted(RequestedCalls, "add_long_term_memory"))
                /\ node' = "reasoning_engine"
                /\ spc' = "graph" ]_vars

\* a batch whose first invocation raised and whose second added its fact
C14_Witness ==
    \E a \in DOMAIN checkpoint :
        LET msgs == checkpoint[a].messages
            n == Len(msgs)
        IN  /\ n >= 3
            /\ node = "reasoning_engine"
            /\ msgs[n - 2].type = "ai"
            /\ Len(msgs[n - 2].tool_calls) = 2
            /\ msgs[n - 1].type = "tool"
            /\ msgs[n - 1].content[1] = "Error: "
            /\ msgs[n].type = "tool"
            /\ msgs[n].content = FactAdded("agent_1")
            /\ facts # <<>>

\* ---- C15 ---------------------------------------------------------------
\* a step of the reflection node in which nothing failed: the chain answered
\* and the store is connected
ReflectionSucceeds ==
    /\ node = "reflection"
    /\ node' # node
    /\ failBudget' = failBudget
    /\ conn = "open"

\* C15: a reflection in which nothing fails appends exactly one row to the
\* memories table, the summary the chain returned, and reinforces the input
\* of the run (its goal text) with weight 1.0, in the step that ends the
\* graph; it changes nothing else in the store and nothing in the agent state.
C15_ReflectionStoresSummaryAndReinforcesGoal ==
    [][ ReflectionSucceeds =>
            /\ memories' = Append(memories, Summary)
            /\ concepts' = UpsertConcept(concepts, checkpoint[Agent].input, DefaultWeight)
            /\ UNCHANGED <<facts, tasks, checkpoint>>
            /\ node' = END ]_vars

\* the first run has ended after a reflection that stored its summary and
\* reinforced its goal
C15_Witness ==
    /\ runs = 1
    /\ node = END
    /\ failBudget = MaxFailures
    /\ memories = <<Summary>>
    /\ checkpoint[Agent].input \in Goals
    /\ concepts = (checkpoint[Agent].input :> Amount(DefaultWeight))

\* ---- C16 ---------------------------------------------------------------
\* a step of the reflection node in which something failed: the chain or a
\* statement of the store raised, or the store is not connected
ReflectionFails ==
    /\ node = "reflection"
    /\ spc = "graph"
    /\ spc' # spc
    /\ failBudget' < failBudget \/ conn = "none"

\* C16: a failure in the reflection node (of the chain, of the memory append
\* or of the reinforcement) is swallowed: the graph reaches END, the agent
\* state is the one the node was given, and agent_graph.invoke returns to its
\* caller instead of raising.
C16_ReflectionFailureIsSwallowed ==
    [][ ReflectionFails =>
            /\ node' = END
            /\ spc' = "complete"
            /\ checkpoint' = checkpoint ]_vars

\* a run has ended after a reflection that stored its summary and then failed
\* to reinforce the goal
C16_Witness ==
    /\ runs = 1
    /\ node = END
    /\ spc = "complete"
    /\ failBudget < MaxFailures
    /\ memories = <<Summary>>
    /\ concepts = <<>>
    /\ Len(checkpoint[Agent].messages) = 2

\* ---- C17 ---------------------------------------------------------------
\* C17: the failure of one agent's turn (of an oracle, tool or store call in
\* it) never ends run_autonomous_swarm: no exception leaves the loop over
\* the agents, so the turns of the remaining agents and the remaining
\* iterations still run.
C17_AgentFailureDoesNotStopScheduler ==
    spc # "raised"

\* ---- C19 ---------------------------------------------------------------
\* the loop of run_multi_agent_test is at a disabled agent and moves on
SkipStep ==
    /\ spc = "test"
    /\ agentIdx <= Len(agents_data)
    /\ agents_data[agentIdx].id \in disabled_agents
    /\ agentIdx' # agentIdx

\* C19: a disabled agent is skipped entirely.  The step in which the loop
\* passes it changes nothing but the position of the loop (no read or write of
\* the Swarm Environment, no run, no checkpoint), so the turn of the next
\* enabled agent starts in the state in which it would start if the disabled
\* agent were not in agents_data; no run is ever started on a disabled
\* agent's thread, its checkpoint stays the one of a thread that never ran,
\* and no fact is recorded on its behalf.
C19_DisabledAgentIsSkipped ==
    [][ /\ SkipStep =>
            /\ agentIdx' = agentIdx + 1
            /\ UNCHANGED <<envVars, spc, goal, graphVars>>
        /\ RunStarts => Agent' \notin disabled_agents
        /\ \A a \in disabled_agents :
               /\ checkpoint'[a] = InitialAgentState
               /\ \A i \in DOMAIN facts' : facts'[i].source_agent_id # a ]_vars

\* agent_1 is disabled and was passed; agent_2 ran and its fact was recorded
C19_Witness ==
    /\ disabled_agents = {"agent_1"}
    /\ spc = "test"
    /\ agentIdx = 3
    /\ runs = 1
    /\ checkpoint["agent_1"] = InitialAgentState
    /\ checkpoint["agent_2"].input = agents_data[2].input
    /\ \E i \in DOMAIN facts : facts[i].source_agent_id = "agent_2"

\* ---- C20 ---------------------------------------------------------------
\* the fact the last add_fact call stored
LastFact == [content |-> facts[Len(facts)].content,
             source_agent_id |-> facts[Len(facts)].source_agent_id]

\* a get_facts call with the default limit that directly follows an add_fact
\* call that stored its fact and whose query is a part of that fact
GetFactsAfterAddFact ==
    /\ ret.op = "add_fact"
    /\ ret.status = FactAdded(ret.arg)
    /\ ret'.op = "get_facts"
    /\ ret'.num = DefaultLimit
    /\ ncalls' = ncalls + 1
    /\ Like(LastFact.content, ret'.arg)

\* C20: round trip.  After add_fact(f, a), get_facts with a query that is a
\* substring of f returns a list that holds f with source_agent_id a,
\* whatever facts were added before.
C20_AddedFactIsReturned ==
    [][ GetFactsAfterAddFact =>
            \E i \in DOMAIN ret'.rows : ret'.rows[i] = LastFact ]_vars

\* ---- C21 ---------------------------------------------------------------
\* a get_facts call on a connected store
GetFactsStep == ncalls' = ncalls + 1 /\ ret'.op = "get_facts" /\ conn = "open"

\* rows are facts of the table, each added before the one that precedes it
NewestAddedFirst(tbl, rows, query) ==
    \E ids \in [DOMAIN rows -> DOMAIN tbl] :
        /\ rows = FactRows(tbl, ids)
        /\ \A i, j \in DOMAIN rows : i < j => ids[i] > ids[j]
        /\ \A i \in DOMAIN rows : query = "" \/ Like(tbl[ids[i]].content, query)

\* C21: get_facts(query, limit) returns at most limit facts, newest-added
\* first (a fact added later precedes every fact added earlier), and, when a
\* query is given, only facts whose content contains the query.
C21_FactsNewestAddedFirst ==
    [][ GetFactsStep =>
            /\ ret'.num >= 0 => Len(ret'.rows) <= ret'.num
            /\ NewestAddedFirst(facts, ret'.rows, ret'.arg) ]_vars

\* ---- C22 ---------------------------------------------------------------
\* a get_available_tasks call on a connected store
GetAvailableTasksStep ==
    ncalls' = ncalls + 1 /\ ret'.op = "get_available_tasks" /\ conn = "open"

\* C22: get_available_tasks(limit) returns at most limit tasks, all of them
\* pending, oldest-created first: a task added earlier (the smaller id)
\* precedes every task added later.
C22_PendingTasksOldestAddedFirst ==
    [][ GetAvailableTasksStep =>
            LET rows == ret'.rows
            IN  /\ ret'.num >= 0 => Len(rows) <= ret'.num
                /\ \A i \in DOMAIN rows :
                       rows[i].id \in DOMAIN tasks /\ tasks[rows[i].id].status = "pending"
                /\ \A i, j \in DOMAIN rows : i < j => rows[i].id < rows[j].id ]_vars

\* ---- C23 ---------------------------------------------------------------
\* the add_fact calls a step makes on a connected store: the accepted
\* add_fact_to_swarm invocations of a tool_executor batch, the add_fact of
\* run_multi_agent_test after an agent's run, or one direct call
AddFactCalls ==
    IF conn = "none" THEN 0
    ELSE IF ToolExecutorStep THEN Cardinality(Accepted(RequestedCalls, "add_fact_to_swarm"))
    ELSE IF spc = "complete" /\ spc' = "test" THEN 1
    ELSE IF ncalls' = ncalls + 1 /\ ret'.op = "add_fact" THEN 1
    ELSE 0

\* C23: the fact ledger is append-only.  No step changes or deletes a fact
\* that exists; each add_fact call of a step adds exactly one fact, stamped
\* with the time of the call, and a step without an add_fact call leaves the
\* facts as they are.
C23_FactLedgerAppendOnly ==
    [][ /\ Len(facts') >= Len(facts)
        /\ SubSeq(facts', 1, Len(facts)) = facts
        /\ RowsAdded(facts, facts') = AddFactCalls
        /\ \A i \in (Len(facts) + 1)..Len(facts') : facts'[i].timestamp = clock ]_vars

\* two facts were added in one run and the run ended with the reflection,
\* which reinforced the goal: the two facts are still there
C23_Witness ==
    /\ Len(facts) = 2
    /\ spc = "complete"
    /\ ret.op = "reinforce_concept"
    /\ cycles >= 1

\* ---- C24 ---------------------------------------------------------------
\* the same store with a connection
Connected(s) == [s EXCEPT !.conn = "open"]

\* what the caller of the recorded call got: the rows of a query, the text of
\* any other method
ReturnValue(r) ==
    IF r.op \in {"get_strongest_concepts", "get_facts", "get_available_tasks"}
    THEN r.rows ELSE r.status

\* the values the recorded call can return from the store s
ReturnValuesOn(s, r) ==
    CASE r.op = "reinforce_concept" -> {reinforce_concept(s, r.arg, r.num).ret.status}
      [] r.op = "evaporate" -> {evaporate(s, r.num).ret.status}
      [] r.op = "add_fact" -> {add_fact(s, "", r.arg).ret.status}
      [] r.op = "add_task" -> {add_task(s, d, r.arg).ret.status : d \in TaskDescriptions}
      [] r.op = "mark_task_as_completed" -> {mark_task_as_completed(s, r.num, r.arg).ret.status}
      [] r.op = "get_strongest_concepts" -> get_strongest_concepts(s, r.num)
      [] r.op = "get_facts" -> get_facts(s, r.arg, r.num)
      [] r.op = "get_available_tasks" -> get_available_tasks(s, r.num)

\* a call of a SwarmEnvironment method without a connection
UnavailableCall == conn = "none" /\ ncalls' = ncalls + 1

\* C24: without a connection every SwarmEnvironment method changes no table
\* and returns a failure result that tells the caller so: a value the same
\* call cannot return from the same tables with a connection.
C24_UnavailableStoreFailsDistinguishably ==
    [][ UnavailableCall =>
            /\ UNCHANGED <<concepts, tasks, facts, memories>>
            /\ ReturnValue(ret') \notin ReturnValuesOn(Connected(Store), ret') ]_vars

\* ---- C25 ---------------------------------------------------------------
\* run_autonomous_swarm is over: it returned or an exception left it
SchedulerStopped == spc \in {"finished", "raised"}

\* the turns begun before the turn of agent_ids[agentIdx] in this iteration
TurnsBefore == (iteration - 1) * NumAgents + agentIdx - 1

\* C25: every iteration of the scheduler evaporates once, before the turn of
\* any agent, the agents then take their turns one at a time in the order
\* agent_1 .. agent_N, and a run of N agents and M iterations has made M
\* evaporations and N * M agent turns when it is over.
C25_DecayOnceThenTurnsInOrder ==
    /\ conn # "none" => evaps = iteration
    /\ spc = "turn" => runs = TurnsBefore
    /\ spc \in {"graph", "complete", "reinforce"} =>
           /\ runs = TurnsBefore + 1
           /\ checkpoint[agent_ids[agentIdx]].input = goal
    /\ SchedulerStopped =>
           /\ conn # "none" => evaps = max_iterations
           /\ runs = NumAgents * max_iterations

\* ---- C26 ---------------------------------------------------------------
\* the scheduler acts after agent_graph.invoke returned
AfterRunStep == spc = "complete" /\ spc' # spc

\* the scheduler's reinforce_concept(current_task_input, weight=1.0)
SchedulerReinforceStep == spc = "reinforce" /\ spc' # spc

\* a call of the method op is made in the step
CallOf(op) == ncalls' # ncalls /\ ret'.op = op

PheromoneBefore(c) == IF c \in DOMAIN concepts THEN concepts[c] ELSE 0

\* C26: in a turn of the scheduler mark_task_as_completed is called only
\* after the graph of the agent has reached END, for the task id the turn
\* holds and the agent of the turn; whatever it returns, "not found or not
\* assigned to you" included, the turn goes on to the scheduler's
\* reinforce_concept, which adds weight 1.0 to the goal text once, whether or
\* not a task was held, before the next turn begins.
C26_CompleteAfterDoneThenReinforceOnce ==
    [][ /\ CallOf("mark_task_as_completed") =>
               spc = "complete" /\ node = END /\ task_id # 0
        /\ AfterRunStep =>
               /\ node = END
               /\ task_id # 0 =>
                      /\ ncalls' = ncalls + 1
                      /\ ret'.op = "mark_task_as_completed"
                      /\ ret'.num = task_id
                      /\ ret'.arg = agent_ids[agentIdx]
               /\ task_id = 0 => UNCHANGED envVars
               /\ spc' = "reinforce"
               /\ UNCHANGED <<concepts, goal, task_id, agentIdx, iteration>>
        /\ (CallOf("reinforce_concept") /\ spc # "graph") => spc = "reinforce"
        /\ SchedulerReinforceStep =>
               /\ ncalls' = ncalls + 1
               /\ ret'.op = "reinforce_concept"
               /\ ret'.arg = goal
               /\ ret'.num = DefaultWeight
               /\ conn = "open" =>
                      /\ DOMAIN concepts' = DOMAIN concepts \cup {goal}
                      /\ concepts'[goal] = PheromoneBefore(goal) + Amount(DefaultWeight)
                      /\ \A c \in DOMAIN concepts \ {goal} : concepts'[c] = concepts[c]
               /\ UNCHANGED <<tasks, facts, memories, goal>>
               /\ spc' \in {"turn", "next_iteration"} ]_vars

\* a turn that held a task has ended: its completion was refused, the task
\* is still pending, and the goal was reinforced by the scheduler
C26_Witness ==
    /\ spc \in {"turn", "next_iteration"}
    /\ task_id \in DOMAIN tasks
    /\ tasks[task_id].status = "pending"
    /\ tasks[task_id].description = goal
    /\ ret.op = "reinforce_concept"
    /\ ret.arg = goal
    /\ goal \in DOMAIN concepts

\* ---- C27 ---------------------------------------------------------------
\* get_strongest_concepts is called again with the limit of the call before
\* it; a query changes no table, so both calls read the same concepts
StrongestRepeated ==
    /\ StrongestStep
    /\ conn = "open"
    /\ ret.op = "get_strongest_concepts"
    /\ ret'.num = ret.num

\* C27: get_strongest_concepts is deterministic.  Two calls with the same
\* limit on the same concepts table return the same sequence, also when
\* concepts have equal pheromones.
C27_StrongestConceptsDeterministic ==
    [][ StrongestRepeated => ret'.rows = ret.rows ]_vars

\* ---- C28 ---------------------------------------------------------------
\* the sum of the weights of the reinforce_concept calls on c among calls
RECURSIVE WeightSum(_, _)
WeightSum(calls, c) ==
    IF calls = <<>> THEN 0
    ELSE (IF Head(calls).op = "reinforce_concept" /\ Head(calls).c = c
          THEN Amount(Head(calls).v) ELSE 0) + WeightSum(Tail(calls), c)

OnlyReinforced == \A i \in DOMAIN issued : issued[i].op = "reinforce_concept"

ReinforcedNames == {issued[i].c : i \in DOMAIN issued}

\* no call is under way and none has raised
Quiescent == failBudget = MaxFailures /\ \A t \in Threads : ~InCall(t)

\* C28: concurrent reinforcement loses no update.  When threads call
\* reinforce_concept on the one connection, on the same names or not, each
\* reinforced name has exactly one row and its pheromone is the sum of the
\* weights of all the calls on it, however the calls interleave; once the
\* calls have returned that table is the committed one.
C28_ConcurrentReinforceLosesNoUpdate ==
    OnlyReinforced =>
        /\ DOMAIN concepts = ReinforcedNames
        /\ \A c \in ReinforcedNames : concepts[c] = WeightSum(issued, c)
        /\ Quiescent => committed = concepts

\* a reinforce_concept of cats has returned, and two threads are then inside
\* reinforce_concept of cats at the same time
C28_Witness ==
    /\ Len(issued) = 3
    /\ OnlyReinforced
    /\ ReinforcedNames = {"cats"}
    /\ \A t \in Threads : threads[t].pc = "commit" /\ threads[t].c = "cats"

\* ---- C29 ---------------------------------------------------------------
\* a row of tasks has one of the two statuses the code writes, and a
\* completion time exactly when it is completed
StatusAndStampAgree(task) ==
    /\ task.status \in {"pending", "completed"}
    /\ task.completed_at # NullTime <=> task.status = "completed"

\* C29: the status of a task is monotone.  A task is created pending, the
\* only change of a status is from pending to completed, a completed task
\* stays completed, no task is removed, 'in_progress' is never reached, and
\* completed_at is set exactly for the completed tasks.
C29_TaskStatusMonotone ==
    [][ /\ Len(tasks') >= Len(tasks)
        /\ \A id \in DOMAIN tasks' :
               /\ StatusAndStampAgree(tasks'[id])
               /\ id \notin DOMAIN tasks => tasks'[id].status = "pending"
               /\ id \in DOMAIN tasks =>
                      /\ tasks[id].status = "completed" => tasks'[id].status = "completed"
                      /\ tasks'[id].status # tasks[id].status =>
                             tasks[id].status = "pending" /\ tasks'[id].status = "completed" ]_vars

\* a task was completed by its assignee in a later second than it was
\* created, next to a task that is still pending
C29_Witness ==
    /\ ret.op = "mark_task_as_completed"
    /\ ret.status = TaskCompleted(ret.num)
    /\ ret.num \in DOMAIN tasks
    /\ tasks[ret.num].status = "completed"
    /\ tasks[ret.num].completed_at > tasks[ret.num].created_at
    /\ \E other \in DOMAIN tasks : tasks[other].status = "pending"

\* ---- C30 ---------------------------------------------------------------
\* an add_task call on a connected store
AddTaskStep == ncalls' = ncalls + 1 /\ ret'.op = "add_task" /\ conn = "open"

\* C30: the assignee of a task is fixed at creation.  add_task stores its
\* source_agent_id as the assigned_agent_id of the one task it adds, no step
\* changes the assigned_agent_id of a task, and so
\* mark_task_as_completed(id, a) succeeds exactly when a is the agent that
\* added task id.
C30_AssigneeFixedAtCreation ==
    [][ /\ \A id \in DOMAIN tasks :
               /\ id \in DOMAIN tasks'
               /\ tasks'[id].assigned_agent_id = tasks[id].assigned_agent_id
        /\ AddTaskStep =>
               /\ Len(tasks') = Len(tasks) + 1
               /\ tasks'[Len(tasks')].assigned_agent_id = ret'.arg
        /\ ~AddTaskStep => Len(tasks') = Len(tasks)
        /\ (CompleteStep /\ conn = "open") =>
               (ret'.status = TaskCompleted(ret'.num)
                    <=> /\ ret'.num \in DOMAIN tasks
                        /\ tasks[ret'.num].assigned_agent_id = ret'.arg) ]_vars

\* agent_2 completed the task it had added, while a task added by someone
\* else is still assigned to its creator
C30_Witness ==
    /\ ret.op = "mark_task_as_completed"
    /\ ret.arg = "agent_2"
    /\ ret.status = TaskCompleted(ret.num)
    /\ tasks[ret.num].assigned_agent_id = "agent_2"
    /\ \E other \in DOMAIN tasks : tasks[other].assigned_agent_id # "agent_2"

\* ---- C31 ---------------------------------------------------------------
\* a step of an agent's turn after the pick: the run, the completion, the
\* scheduler's reinforcement
TurnStep == spc \in {"graph", "complete", "reinforce"}

\* the pheromone of the goal of the turn, 0 when the goal has no row
GoalPheromone == PheromoneBefore(goal)
GoalPheromoneAfter == IF goal \in DOMAIN concepts' THEN concepts'[goal] ELSE 0

\* the reflection node runs and nothing in it raises
ReflectionCompletes ==
    spc = "graph" /\ node = "reflection" /\ spc' # spc /\ failBudget' = failBudget

\* the reflection node runs and its reinforce_concept call is made and returns
ReflectionReinforces ==
    /\ spc = "graph" /\ node = "reflection" /\ spc' # spc
    /\ CallOf("reinforce_concept")

\* the weights of the reinforce_concept invocations of calls that name c
RECURSIVE ToolWeights(_, _)
ToolWeights(calls, c) ==
    IF calls = <<>> THEN 0
    ELSE (IF /\ Head(calls).name = "reinforce_concept"
             /\ Head(calls).args.valid
             /\ Head(calls).args.text = c
          THEN Amount(Head(calls).args.num) ELSE 0) + ToolWeights(Tail(calls), c)

NodeStep(name) == spc = "graph" /\ node = name

\* reasoning_node appended the answer of the chain
ReasoningSucceeds == NodeStep("reasoning_engine") /\ failBudget' = failBudget /\ node' # node

\* agent_graph.invoke returns: the graph has reached END
ReachesDone == spc = "graph" /\ spc' = "complete"

\* the oracle decisions in a message history
Decisions(messages) == {i \in DOMAIN messages : messages[i].type = "ai"}

\* C32: the iterations counter of the agent state grows by exactly 1 in each
\* reasoning step that succeeds and is left as it is by a reasoning step that
\* fails, by tool_executor and by reflection; when the run reaches END it
\* equals the number of oracle decisions appended to the message history
\* during the run.
C32_IterationsCountDecisions ==
    [][ LET before == checkpoint[Agent]
            after == checkpoint'[Agent]
        IN  /\ ReasoningSucceeds => after.iterations = before.iterations + 1
            /\ (/\ spc = "graph" /\ spc' # "idle"
                /\ (~ReasoningSucceeds)) => after.iterations = before.iterations
            /\ ReachesDone => after.iterations = Cardinality(Decisions(after.messages)) ]_vars

\* ---- C33 ---------------------------------------------------------------
\* a tool result in a message history
IsToolResult(message) == message.type = "tool"

\* the tool results a message history contains, in its order
ToolResultsIn(messages) == SelectSeq(messages, IsToolResult)

\* C33: the message history of a run only grows at its end: a reasoning step
\* that succeeds appends exactly one oracle message, tool_executor appends
\* exactly the tool results of the batch, the same it appends to
\* tool_outputs, reflection appends nothing, and no node removes or reorders
\* an earlier message; tool_outputs is always the subsequence of the tool
\* results the message history contains.
C33_MessagesAppendOnly ==
    [][ LET before == checkpoint[Agent]
            after == checkpoint'[Agent]
            appended == AppendedBy(before.messages, after.messages)
        IN  /\ spc = "graph" =>
                  /\ Len(after.messages) >= Len(before.messages)
                  /\ SubSeq(after.messages, 1, Len(before.messages)) = before.messages
                  /\ ReasoningSucceeds => Len(appended) = 1 /\ appended[1].type = "ai"
                  /\ ToolExecutorStep =>
                        /\ Len(appended) = Len(RequestedCalls)
                        /\ \A i \in DOMAIN appended : IsToolResult(appended[i])
                        /\ after.tool_outputs = before.tool_outputs \o appended
                  /\ (~ReasoningSucceeds /\ ~ToolExecutorStep) => appended = <<>>
            /\ \A a \in DOMAIN checkpoint' :
                  checkpoint'[a].tool_outputs = ToolResultsIn(checkpoint'[a].messages) ]_vars

====
